---------------------------- MODULE Spec2Model ----------------------------
(***************************************************************************)
(* Model of pylangdetect (src/main.py): language guessing by dictionary    *)
(* lookup and by character-transition matrices.                            *)
(*                                                                         *)
(* Strings are sequences of character codes (ord).  Numbers produced by    *)
(* the float arithmetic of the program are exact fractions <<n, d>> in     *)
(* lowest terms, extended with the two IEEE values the program can         *)
(* produce by dividing by zero: NaN = <<0, 0>> and Inf = <<1, 0>>.         *)
(***************************************************************************)
EXTENDS Integers, Sequences, FiniteSets, TLC

VARIABLES
    pc,             \* position of the control flow
    fs,             \* content of the three word-list files, by path
    words,          \* value returned by load_words_from_file
    matrix,         \* value returned by load_transition_matrice
    dict_all,       \* value returned by load_universal_dictionary
    text,           \* the text being analysed
    raw_scores,     \* scores as they are when normalise_scores is entered
    scores,         \* scores returned by the last scoring operation
    arg_text,       \* --text as given on the command line
    arg_file,       \* --file as given on the command line
    input_text,     \* first parameter of main
    input_file,     \* second parameter of main
    file_content,   \* content of the input file, or Unreadable
    console,        \* the line input() returned, None before it is called
    prompted,       \* TRUE once input() has been called
    called,         \* scoring operations invoked so far
    loader_path \* argument of the loader being run

vars == <<pc, fs, words, matrix, dict_all, text, raw_scores, scores,
          arg_text, arg_file, input_text, input_file, file_content,
          console, prompted, called, loader_path>>

-----------------------------------------------------------------------------
(* Bounds of the model. *)

MaxFileLen == 4     \* characters in a word-list file (load_words_from_file)
MaxWords == 2       \* words per language list (load_universal_dictionary)
MaxListLen == 1     \* words per language list (scoring, matrices)
MaxTextLen == 3     \* characters in an analysed text
MaxInputLen == 2    \* characters in a command-line, file or console text
MaxScore == 2       \* largest numerator of a score given to normalise_scores
MaxDen == 2         \* largest denominator of a score given to normalise_scores

-----------------------------------------------------------------------------
(* Characters. *)

TAB == 9
LF == 10
CR == 13
SPACE == 32
UpperA == 65
LowerA == 97
LowerB == 98
Euro == 8364

\* Every character the model puts in a file or a text.
Chars == {TAB, LF, CR, SPACE, UpperA, LowerA, LowerB, Euro}

\* Characters matched by \s in re.split('\s+', ...), among the ASCII ones.
IsSpace(c) == c \in {TAB, LF, 11, 12, CR, SPACE}

\* str.lower() on one character (ASCII and Latin-1 capitals).
lower_char(c) ==
    IF c \in 65..90 \/ c \in 192..214 \/ c \in 216..222 THEN c + 32 ELSE c

lower(s) == [i \in 1..Len(s) |-> lower_char(s[i])]

ToSet(s) == {s[i] : i \in 1..Len(s)}

\* All sequences over S of length at most n.
SeqsUpTo(S, n) == UNION {[1..k -> S] : k \in 0..n}

RECURSIVE Concat(_)
Concat(ss) == IF ss = <<>> THEN <<>> ELSE Head(ss) \o Concat(Tail(ss))

-----------------------------------------------------------------------------
(* Languages and word-list files. *)

LANG_UNKNOWN == 0
LANG_FR == 1
LANG_EN == 2
LANG_ES == 3
ALL_LANGS == {LANG_UNKNOWN, LANG_FR, LANG_EN, LANG_ES}

WORDS_FR_PATH == "assets/wordsFR.txt"
WORDS_EN_PATH == "assets/wordsEN.txt"
WORDS_ES_PATH == "assets/wordsES.txt"

\* MAP_LANGUAGE_WORDS as the sequence of its items, in insertion order.
MAP_LANGUAGE_WORDS ==
    << <<LANG_FR, WORDS_FR_PATH>>,
       <<LANG_EN, WORDS_EN_PATH>>,
       <<LANG_ES, WORDS_ES_PATH>> >>

KnownLangs == {MAP_LANGUAGE_WORDS[i][1] : i \in 1..Len(MAP_LANGUAGE_WORDS)}
Paths == {MAP_LANGUAGE_WORDS[i][2] : i \in 1..Len(MAP_LANGUAGE_WORDS)}

PathOf(lang) ==
    MAP_LANGUAGE_WORDS[CHOOSE i \in 1..Len(MAP_LANGUAGE_WORDS) :
                           MAP_LANGUAGE_WORDS[i][1] = lang][2]

-----------------------------------------------------------------------------
(* load_words_from_file *)

\* open(..., 'rt'): universal newlines, "\r\n" and "\r" are read as "\n".
RECURSIVE translate_newlines(_)
translate_newlines(s) ==
    IF s = <<>> THEN <<>>
    ELSE IF Head(s) = CR
         THEN IF Len(s) >= 2 /\ s[2] = LF
              THEN <<LF>> \o translate_newlines(Tail(Tail(s)))
              ELSE <<LF>> \o translate_newlines(Tail(s))
         ELSE <<Head(s)>> \o translate_newlines(Tail(s))

\* fd.readlines(): the lines, each with its terminating "\n" when it has one.
RECURSIVE readlines_from(_, _)
readlines_from(s, cur) ==
    IF s = <<>> THEN (IF cur = <<>> THEN <<>> ELSE <<cur>>)
    ELSE IF Head(s) = LF
         THEN <<Append(cur, LF)>> \o readlines_from(Tail(s), <<>>)
         ELSE readlines_from(Tail(s), Append(cur, Head(s)))

readlines(content) == readlines_from(translate_newlines(content), <<>>)

\* word.strip('\n'): removes every leading and trailing "\n", nothing else.
RECURSIVE lstrip_nl(_)
lstrip_nl(s) ==
    IF s # <<>> /\ Head(s) = LF THEN lstrip_nl(Tail(s)) ELSE s

RECURSIVE rstrip_nl(_)
rstrip_nl(s) ==
    IF s # <<>> /\ s[Len(s)] = LF
    THEN rstrip_nl(SubSeq(s, 1, Len(s) - 1)) ELSE s

strip_nl(s) == rstrip_nl(lstrip_nl(s))

load_words_from_file(words_file_path) ==
    LET lines == readlines(fs[words_file_path])
    IN  [i \in 1..(IF Len(lines) > 0 THEN Len(lines) - 1 ELSE 0) |->
            lower(strip_nl(lines[i + 1]))]

-----------------------------------------------------------------------------
(* Float arithmetic: exact fractions, NaN and Inf. *)

NaN == <<0, 0>>
Inf == <<1, 0>>
Zero == <<0, 1>>
One == <<1, 1>>

RECURSIVE GCD(_, _)
GCD(a, b) == IF b = 0 THEN a ELSE GCD(b, a % b)

\* The fraction n/d (n >= 0, d >= 0) in lowest terms; n/0 is NaN or Inf.
Rat(n, d) ==
    IF d = 0 THEN (IF n = 0 THEN NaN ELSE Inf)
    ELSE LET g == GCD(n, d) IN <<n \div g, d \div g>>

\* x + y
float_add(x, y) ==
    IF x = NaN \/ y = NaN THEN NaN
    ELSE IF x = Inf \/ y = Inf THEN Inf
    ELSE Rat(x[1] * y[2] + y[1] * x[2], x[2] * y[2])

\* x / y as numpy divides floats: 0/0 is NaN, x/0 is Inf for x > 0.
float_div(x, y) ==
    IF x = NaN \/ y = NaN THEN NaN
    ELSE IF y = Inf THEN (IF x = Inf THEN NaN ELSE Zero)
    ELSE IF x = Inf THEN Inf
    ELSE Rat(x[1] * y[2], x[2] * y[1])

\* x > 0 (False for NaN)
float_positive(x) == x[1] > 0

\* sum(...) of the values of a mapping, starting from 0
RECURSIVE sum_values(_, _)
sum_values(f, dom) ==
    IF dom = {} THEN Zero
    ELSE LET k == CHOOSE k \in dom : TRUE
         IN  float_add(f[k], sum_values(f, dom \ {k}))

-----------------------------------------------------------------------------
(* load_language_dictionary, load_universal_dictionary *)

\* Variant: a repeated word accumulates one entry per occurrence.
load_language_dictionary_accumulating(list_words_path, language) ==
    LET ws == load_words_from_file(list_words_path)
    IN  [w \in ToSet(ws) |->
            [j \in 1..Cardinality({i \in 1..Len(ws) : ws[i] = w}) |-> language]]

\* {word: [language] for word in ...}: a mapping, one [language] per word.
load_language_dictionary(list_words_path, language) ==
    [w \in ToSet(load_words_from_file(list_words_path)) |-> <<language>>]

\* The body of "for dct in language_dicts" for one dct.
merge_dictionary(acc, dct) ==
    [key \in DOMAIN acc \cup DOMAIN dct |->
        IF key \in DOMAIN acc
        THEN (IF key \in DOMAIN dct THEN acc[key] \o dct[key] ELSE acc[key])
        ELSE dct[key]]

\* The merge loop over language_dicts, for the items taken in a given order.
RECURSIVE merge_dictionaries(_, _)
merge_dictionaries(acc, items) ==
    IF items = <<>> THEN acc
    ELSE merge_dictionaries(
            merge_dictionary(acc,
                load_language_dictionary(Head(items)[2], Head(items)[1])),
            Tail(items))

load_universal_dictionary == merge_dictionaries(<<>>, MAP_LANGUAGE_WORDS)

-----------------------------------------------------------------------------
(* prepare_word_for_transition_check, load_transition_matrice *)

prepare_word_for_transition_check(word) ==
    [i \in 1..Len(word) |-> IF word[i] < 256 THEN word[i] ELSE 256]

\* The rows and columns of the matrix that a character of Chars can index.
\* Every other cell of the 257x257 matrix is never incremented and never
\* read, and is divided by the same total as the cells kept here.
MatrixIndices == {IF c < 256 THEN c ELSE 256 : c \in Chars}

\* The adjacent pairs (ord_index, ord_index + 1) of all the words of a list.
transitions(ws) ==
    UNION {{<<w, i>> : i \in 1..(Len(ws[w]) - 1)} : w \in 1..Len(ws)}

load_transition_matrice(list_words_path) ==
    LET ws == load_words_from_file(list_words_path)
        ords == [w \in 1..Len(ws) |-> prepare_word_for_transition_check(ws[w])]
        total_transitions == Cardinality(transitions(ws))
    IN  [cell \in MatrixIndices \X MatrixIndices |->
            LET count == Cardinality({t \in transitions(ws) :
                            /\ ords[t[1]][t[2]] = cell[1]
                            /\ ords[t[1]][t[2] + 1] = cell[2]})
            IN  float_div(Rat(count, 1), Rat(total_transitions, 1))]

-----------------------------------------------------------------------------
(* Tokenisation: re.split('\s+', text) *)

RECURSIVE skip_spaces(_)
skip_spaces(s) ==
    IF s # <<>> /\ IsSpace(Head(s)) THEN skip_spaces(Tail(s)) ELSE s

\* A run of whitespace ends the current token, also when the token is empty:
\* leading and trailing whitespace produce an empty first or last token.
RECURSIVE re_split_from(_, _)
re_split_from(s, cur) ==
    IF s = <<>> THEN <<cur>>
    ELSE IF IsSpace(Head(s))
         THEN <<cur>> \o re_split_from(skip_spaces(s), <<>>)
         ELSE re_split_from(Tail(s), Append(cur, Head(s)))

re_split(s) == re_split_from(s, <<>>)

-----------------------------------------------------------------------------
(* normalise_scores *)

\* Variant: the total is not tested before dividing.
normalise_scores_unguarded(scrs) ==
    LET total_score == sum_values(scrs, DOMAIN scrs)
    IN  [language \in DOMAIN scrs |-> float_div(scrs[language], total_score)]

normalise_scores(scrs) ==
    LET total_score == sum_values(scrs, DOMAIN scrs)
    IN  IF float_positive(total_score)
        THEN [language \in DOMAIN scrs |->
                float_div(scrs[language], total_score)]
        ELSE scrs

-----------------------------------------------------------------------------
(* compute_scores_with_dictionary *)

\* "for language in languages: scores[language] += 1"
RECURSIVE add_languages(_, _)
add_languages(scrs, languages) ==
    IF languages = <<>> THEN scrs
    ELSE add_languages(
            [scrs EXCEPT ![Head(languages)] = float_add(@, One)],
            Tail(languages))

\* Variant: the word is looked up as written, without lower().
RECURSIVE count_words_case_sensitive(_, _, _)
count_words_case_sensitive(scrs, dict_universe, tokens) ==
    IF tokens = <<>> THEN scrs
    ELSE LET word == Head(tokens)
             languages == IF word \in DOMAIN dict_universe
                          THEN dict_universe[word]
                          ELSE <<LANG_UNKNOWN>>
         IN  count_words_case_sensitive(add_languages(scrs, languages),
                                        dict_universe, Tail(tokens))

\* "for word in re.split(...)": the scores before normalisation.
RECURSIVE count_words(_, _, _)
count_words(scrs, dict_universe, tokens) ==
    IF tokens = <<>> THEN scrs
    ELSE LET word == Head(tokens)
             languages == IF lower(word) \in DOMAIN dict_universe
                          THEN dict_universe[lower(word)]
                          ELSE <<LANG_UNKNOWN>>
         IN  count_words(add_languages(scrs, languages),
                         dict_universe, Tail(tokens))

-----------------------------------------------------------------------------
(* compute_score_matrix, compute_scores_with_matrices *)

\* The inner loop: the sum of the cells of the adjacent pairs of one word.
RECURSIVE score_word(_, _, _, _)
score_word(score, chars_ords, ord_index, mat) ==
    IF ord_index > Len(chars_ords) - 1 THEN score
    ELSE score_word(
            float_add(score, mat[<<chars_ords[ord_index],
                                   chars_ords[ord_index + 1]>>]),
            chars_ords, ord_index + 1, mat)

RECURSIVE score_words(_, _, _)
score_words(score, tokens, mat) ==
    IF tokens = <<>> THEN score
    ELSE score_words(
            score_word(score, prepare_word_for_transition_check(Head(tokens)),
                       1, mat),
            Tail(tokens), mat)

compute_score_matrix(txt, mat) == score_words(Zero, re_split(txt), mat)

\* Variant: one entry per language of ALL_LANGS, Unknown included.
matrices_raw_scores_all_langs(txt) ==
    [lang \in ALL_LANGS |->
        IF lang = LANG_UNKNOWN THEN Zero
        ELSE compute_score_matrix(txt, load_transition_matrice(PathOf(lang)))]

\* The dict comprehension of compute_scores_with_matrices.
matrices_raw_scores(txt) ==
    [lang \in KnownLangs |->
        compute_score_matrix(txt, load_transition_matrice(PathOf(lang)))]

-----------------------------------------------------------------------------
(* Inputs of the model. *)

\* Values that are not strings: None, a file open() fails on, end of input.
None == <<-1>>
Unreadable == <<-2>>
EOF == <<-3>>

\* Python truthiness of an optional string.
Truthy(s) == s # None /\ s # <<>>

\* A word-list file: a count line, then one word per line.
WordFile(ws) ==
    <<48 + Len(ws), LF>> \o Concat([i \in 1..Len(ws) |-> ws[i] \o <<LF>>])

FileChars == {LF, CR, SPACE, UpperA, LowerA}
DictWords == {<<LowerA>>, <<UpperA>>, <<LowerA, LowerB>>}
MatrixWords == {<<>>, <<LowerA>>, <<LowerA, LowerB>>,
                <<LowerA, LowerB, LowerA>>, <<Euro, LowerB>>}
DictionaryScoreWords == {<<LowerA>>, <<LowerA, LowerB>>}
DictionaryTextChars == {SPACE, UpperA, LowerA, LowerB}
MatrixScoreWords == {<<LowerA, LowerB>>, <<LowerA, LowerB, LowerA>>}
MatrixTextChars == {SPACE, LowerA, LowerB}
InputChars == {SPACE, LowerA}

\* The word-list files shipped for a run of main.
AssetFiles ==
    { [p \in Paths |->
          IF p = WORDS_FR_PATH THEN WordFile(<< <<LowerA>>, <<LowerA, LowerB>> >>)
          ELSE IF p = WORDS_EN_PATH THEN WordFile(<< <<LowerA>> >>)
          ELSE WordFile(<< <<LowerB, LowerA>> >>)],
      [p \in Paths |->
          IF p = WORDS_FR_PATH THEN WordFile(<< <<LowerA, LowerB>> >>)
          ELSE IF p = WORDS_EN_PATH THEN WordFile(<< <<LowerB, LowerA>> >>)
          ELSE WordFile(<<>>)] }

NoResults ==
    /\ words = <<>>
    /\ matrix = <<>>
    /\ dict_all = <<>>
    /\ raw_scores = <<>>
    /\ scores = <<>>
    /\ called = {}

NoCommandLine ==
    /\ arg_text = None
    /\ arg_file = None
    /\ input_text = None
    /\ input_file = None
    /\ file_content = Unreadable
    /\ console = None
    /\ prompted = FALSE

-----------------------------------------------------------------------------
(* The operations. *)

LoadWordsFromFile ==
    /\ pc = "load_words"
    /\ words' = load_words_from_file(loader_path)
    /\ pc' = "done"
    /\ UNCHANGED <<fs, matrix, dict_all, text, raw_scores, scores, arg_text,
                   arg_file, input_text, input_file, file_content, console,
                   prompted, called, loader_path>>

LoadTransitionMatrice ==
    /\ pc = "load_matrix"
    /\ matrix' = load_transition_matrice(loader_path)
    /\ pc' = "done"
    /\ UNCHANGED <<fs, words, dict_all, text, raw_scores, scores, arg_text,
                   arg_file, input_text, input_file, file_content, console,
                   prompted, called, loader_path>>

LoadUniversalDictionary ==
    /\ pc = "load_dictionary"
    /\ dict_all' = load_universal_dictionary
    /\ pc' = "done"
    /\ UNCHANGED <<fs, words, matrix, text, raw_scores, scores, arg_text,
                   arg_file, input_text, input_file, file_content, console,
                   prompted, called, loader_path>>

NormaliseScores ==
    /\ pc = "normalise"
    /\ scores' = normalise_scores(raw_scores)
    /\ pc' = "done"
    /\ UNCHANGED <<fs, words, matrix, dict_all, text, raw_scores, arg_text,
                   arg_file, input_text, input_file, file_content, console,
                   prompted, called, loader_path>>

\* compute_scores_with_dictionary(text): the dictionary is loaded, the loop
\* counts the words, the counts are normalised and returned.
ComputeScoresWithDictionary ==
    /\ pc = "dictionary"
    /\ called' = called \cup {"compute_scores_with_dictionary"}
    /\ dict_all' = load_universal_dictionary
    /\ raw_scores' = count_words([lang \in ALL_LANGS |-> Zero],
                                 dict_all', re_split(text))
    /\ scores' = normalise_scores(raw_scores')
    /\ pc' = "matrices"
    /\ UNCHANGED <<fs, words, matrix, text, arg_text, arg_file, input_text,
                   input_file, file_content, console, prompted,
                   loader_path>>

\* compute_scores_with_matrices(text): one total per language, normalised.
ComputeScoresWithMatrices ==
    /\ pc = "matrices"
    /\ called' = called \cup {"compute_scores_with_matrices"}
    /\ raw_scores' = matrices_raw_scores(text)
    /\ scores' = normalise_scores(raw_scores')
    /\ pc' = "done"
    /\ UNCHANGED <<fs, words, matrix, dict_all, text, arg_text, arg_file,
                   input_text, input_file, file_content, console, prompted,
                   loader_path>>

ParseArgs ==
    /\ pc = "parse_args"
    /\ IF Truthy(arg_text) /\ Truthy(arg_file)
       THEN input_text' = <<>> /\ input_file' = <<>>
       ELSE input_text' = arg_text /\ input_file' = arg_file
    /\ pc' = "get_text"
    /\ UNCHANGED <<fs, words, matrix, dict_all, text, raw_scores, scores,
                   arg_text, arg_file, file_content, console, prompted,
                   called, loader_path>>

\* "return input_text or input(...)" for the value t of input_text.
ReturnTextOrInput(t) ==
    IF Truthy(t)
    THEN /\ text' = t
         /\ pc' = "check"
         /\ UNCHANGED <<console, prompted>>
    ELSE \E line \in SeqsUpTo(InputChars, MaxInputLen) \cup {EOF} :
            /\ prompted' = TRUE
            /\ console' = line
            /\ IF line = EOF
               THEN pc' = "raised" /\ UNCHANGED text
               ELSE pc' = "check" /\ text' = line

\* Variant: after the IOError the function goes on to the console.
GetTextToTranslate_no_return ==
    /\ pc = "get_text"
    /\ IF Truthy(input_file)
       THEN IF file_content = Unreadable
            THEN ReturnTextOrInput(input_text)
            ELSE ReturnTextOrInput(file_content)
       ELSE ReturnTextOrInput(input_text)
    /\ UNCHANGED <<fs, words, matrix, dict_all, raw_scores, scores, arg_text,
                   arg_file, input_text, input_file, file_content, called,
                   loader_path>>

GetTextToTranslate ==
    /\ pc = "get_text"
    /\ IF Truthy(input_file)
       THEN IF file_content = Unreadable
            THEN /\ text' = <<>>
                 /\ pc' = "check"
                 /\ UNCHANGED <<console, prompted>>
            ELSE ReturnTextOrInput(file_content)
       ELSE ReturnTextOrInput(input_text)
    /\ UNCHANGED <<fs, words, matrix, dict_all, raw_scores, scores, arg_text,
                   arg_file, input_text, input_file, file_content, called,
                   loader_path>>

\* "if not text: return"
MainCheck ==
    /\ pc = "check"
    /\ pc' = IF Truthy(text) THEN "dictionary" ELSE "returned"
    /\ UNCHANGED <<fs, words, matrix, dict_all, text, raw_scores, scores,
                   arg_text, arg_file, input_text, input_file, file_content,
                   console, prompted, called, loader_path>>

-----------------------------------------------------------------------------
(* Specifications. *)

\* load_words_from_file on every file content.
InitWords ==
    /\ pc = "load_words"
    /\ loader_path \in Paths
    /\ \E content \in SeqsUpTo(FileChars, MaxFileLen) :
          fs = [p \in Paths |-> IF p = loader_path THEN content ELSE <<>>]
    /\ text = <<>>
    /\ NoResults
    /\ NoCommandLine

NextWords == LoadWordsFromFile
SpecWords == InitWords /\ [][NextWords]_vars

\* load_transition_matrice on every word list.
InitMatrix ==
    /\ pc = "load_matrix"
    /\ loader_path \in Paths
    /\ \E ws \in SeqsUpTo(MatrixWords, MaxWords) :
          fs = [p \in Paths |->
                   IF p = loader_path THEN WordFile(ws) ELSE <<>>]
    /\ text = <<>>
    /\ NoResults
    /\ NoCommandLine

NextMatrix == LoadTransitionMatrice
SpecMatrix == InitMatrix /\ [][NextMatrix]_vars

\* load_universal_dictionary on every combination of word lists.
InitDictionary ==
    /\ pc = "load_dictionary"
    /\ loader_path = WORDS_FR_PATH
    /\ \E lists \in [Paths -> SeqsUpTo(DictWords, MaxWords)] :
          fs = [p \in Paths |-> WordFile(lists[p])]
    /\ text = <<>>
    /\ NoResults
    /\ NoCommandLine

NextDictionary == LoadUniversalDictionary
SpecDictionary == InitDictionary /\ [][NextDictionary]_vars

\* normalise_scores on every score mapping.
ScoreValues == {Rat(n, d) : n \in 0..MaxScore, d \in 1..MaxDen} \cup {NaN}

InitNormalise ==
    /\ pc = "normalise"
    /\ loader_path = WORDS_FR_PATH
    /\ fs = [p \in Paths |-> <<>>]
    /\ text = <<>>
    /\ raw_scores \in [ALL_LANGS -> ScoreValues] \cup [KnownLangs -> ScoreValues]
    /\ words = <<>>
    /\ matrix = <<>>
    /\ dict_all = <<>>
    /\ scores = <<>>
    /\ called = {}
    /\ NoCommandLine

NextNormalise == NormaliseScores
SpecNormalise == InitNormalise /\ [][NextNormalise]_vars

\* compute_scores_with_dictionary, as main calls it, on every non-empty text
\* and combination of word lists.
InitScoreDictionary ==
    /\ pc = "dictionary"
    /\ loader_path = WORDS_FR_PATH
    /\ \E lists \in [Paths -> SeqsUpTo(DictionaryScoreWords, MaxListLen)] :
          fs = [p \in Paths |-> WordFile(lists[p])]
    /\ text \in SeqsUpTo(DictionaryTextChars, MaxTextLen) \ {<<>>}
    /\ NoResults
    /\ NoCommandLine

NextScoreDictionary == ComputeScoresWithDictionary
SpecScoreDictionary == InitScoreDictionary /\ [][NextScoreDictionary]_vars

\* compute_scores_with_matrices, as main calls it, on every non-empty text
\* and combination of word lists.
InitScoreMatrices ==
    /\ pc = "matrices"
    /\ loader_path = WORDS_FR_PATH
    /\ \E lists \in [Paths -> SeqsUpTo(MatrixScoreWords, MaxListLen)] :
          fs = [p \in Paths |-> WordFile(lists[p])]
    /\ text \in SeqsUpTo(MatrixTextChars, MaxTextLen) \ {<<>>}
    /\ NoResults
    /\ NoCommandLine

NextScoreMatrices == ComputeScoresWithMatrices
SpecScoreMatrices == InitScoreMatrices /\ [][NextScoreMatrices]_vars

\* A run of the program: parse_args, then main.
InitMain ==
    /\ pc = "parse_args"
    /\ loader_path = WORDS_FR_PATH
    /\ fs \in AssetFiles
    /\ arg_text \in SeqsUpTo(InputChars, MaxInputLen) \cup {None}
    /\ arg_file \in {None, <<>>, <<LowerA>>}
    /\ file_content \in SeqsUpTo(InputChars, MaxInputLen) \cup {Unreadable}
    /\ input_text = None
    /\ input_file = None
    /\ console = None
    /\ prompted = FALSE
    /\ text = None
    /\ NoResults

NextMain ==
    \/ ParseArgs
    \/ GetTextToTranslate
    \/ MainCheck
    \/ ComputeScoresWithDictionary
    \/ ComputeScoresWithMatrices

SpecMain == InitMain /\ [][NextMain]_vars

-----------------------------------------------------------------------------
(* Properties. *)

AllSpace(s) == \A i \in 1..Len(s) : IsSpace(s[i])

\* s without its leading and trailing whitespace characters.
RECURSIVE StripWs(_)
StripWs(s) ==
    IF s = <<>> THEN s
    ELSE IF IsSpace(Head(s)) THEN StripWs(Tail(s))
    ELSE IF IsSpace(s[Len(s)]) THEN StripWs(SubSeq(s, 1, Len(s) - 1))
    ELSE s

\* The languages a token counts for: those of its lowercase form when it is
\* a key of the dictionary, Unknown otherwise.
LanguagesOf(token, dict_universe) ==
    IF lower(token) \in DOMAIN dict_universe
    THEN ToSet(dict_universe[lower(token)])
    ELSE {LANG_UNKNOWN}

\* How many of the tokens count for a language.
TokenCount(lang, tokens, dict_universe) ==
    Cardinality({i \in 1..Len(tokens) :
                    lang \in LanguagesOf(tokens[i], dict_universe)})

NonEmptyTokens(txt) == SelectSeq(re_split(txt), LAMBDA t : t # <<>>)

\* C1: when no word of the list has two characters (no transition is
\* counted), load_transition_matrice returns the all-zero matrix.
C1_NoTransitionGivesZeroMatrix ==
    (/\ pc = "done"
     /\ \A w \in ToSet(load_words_from_file(loader_path)) : Len(w) < 2)
    => \A cell \in DOMAIN matrix : matrix[cell] = Zero

\* C2: an empty token of the text adds nothing to any score: the scores
\* before normalisation are those of the non-empty tokens alone, for the
\* dictionary method and for the matrix method.
C2_EmptyTokensAreSkipped ==
    /\ pc = "matrices" =>
          \A lang \in ALL_LANGS :
              raw_scores[lang] =
                  Rat(TokenCount(lang, NonEmptyTokens(text), dict_all), 1)
    /\ pc = "done" =>
          \A lang \in KnownLangs :
              raw_scores[lang] =
                  score_words(Zero, NonEmptyTokens(text),
                              load_transition_matrice(PathOf(lang)))

\* C3: when the text obtained consists only of whitespace, main returns
\* without invoking a scoring operation.
C3_WhitespaceTextShortCircuits ==
    (/\ pc \notin {"parse_args", "get_text", "raised"}
     /\ AllSpace(text))
    => /\ called = {}
       /\ pc \in {"check", "returned"}

\* C4: when both --text and --file are supplied, no scoring operation is
\* executed in the run.
C4_TextAndFileRejected ==
    (Truthy(arg_text) /\ Truthy(arg_file)) => called = {}

\* C5: every word of some list is a key of the universal dictionary, every
\* key is a word of some list, the value of a word holds each language whose
\* list contains the word exactly once and no other language, and merging
\* the languages in another order gives the same set of languages per word.
C5_UniversalDictionary ==
    pc = "done" =>
        LET list(lang) == load_words_from_file(PathOf(lang))
            occurrences(lang, w) ==
                Cardinality({i \in 1..Len(dict_all[w]) : dict_all[w][i] = lang})
        IN  /\ DOMAIN dict_all = UNION {ToSet(list(lang)) : lang \in KnownLangs}
            /\ \A w \in DOMAIN dict_all : \A lang \in ALL_LANGS :
                  occurrences(lang, w) =
                      IF lang \in KnownLangs /\ w \in ToSet(list(lang))
                      THEN 1 ELSE 0
            /\ \A order \in Permutations(1..Len(MAP_LANGUAGE_WORDS)) :
                  LET other == merge_dictionaries(<<>>,
                                   [i \in 1..Len(MAP_LANGUAGE_WORDS) |->
                                       MAP_LANGUAGE_WORDS[order[i]]])
                  IN  /\ DOMAIN other = DOMAIN dict_all
                      /\ \A w \in DOMAIN other :
                            ToSet(other[w]) = ToSet(dict_all[w])

\* A word listed twice in one language and shared by the three languages.
C5_Witness ==
    /\ pc = "done"
    /\ \E w \in DOMAIN dict_all : Len(dict_all[w]) = 3
    /\ \E lang \in KnownLangs :
          LET ws == load_words_from_file(PathOf(lang))
          IN  Len(ws) = 2 /\ ws[1] = ws[2]

\* C6: before normalisation, the score of each language is the number of
\* tokens whose lowercase form is a key holding that language, and the
\* Unknown score is the number of tokens whose lowercase form is not a key.
C6_RawDictionaryScores ==
    pc = "matrices" =>
        \A lang \in ALL_LANGS :
            raw_scores[lang] = Rat(TokenCount(lang, re_split(text), dict_all), 1)

\* Two tokens, an uppercase one whose lowercase form is French and English
\* and one that is in no list: French 1, English 1, Spanish 0, Unknown 1.
C6_Witness ==
    /\ pc = "matrices"
    /\ Len(re_split(text)) = 2
    /\ re_split(text)[1] = <<UpperA>>
    /\ dict_all = (<<LowerA>> :> <<LANG_FR, LANG_EN>>)
    /\ raw_scores = [lang \in ALL_LANGS |->
                        IF lang = LANG_ES THEN Zero ELSE One]

\* C7: when the sum of the scores is greater than 0, each returned value
\* times the sum is the value given and the returned values sum to 1; when
\* the sum is 0, every returned value is 0.
C7_NormaliseScores ==
    pc = "done" =>
        LET total == sum_values(raw_scores, DOMAIN raw_scores)
        IN  /\ DOMAIN scores = DOMAIN raw_scores
            /\ float_positive(total) =>
                  /\ \A lang \in DOMAIN scores :
                        scores[lang][1] * raw_scores[lang][2] * total[1]
                            = raw_scores[lang][1] * scores[lang][2] * total[2]
                  /\ sum_values(scores, DOMAIN scores) = One
            /\ total = Zero => \A lang \in DOMAIN scores : scores[lang] = Zero

\* Scores with a sum other than 0 and 1 have been normalised.
C7_Witness ==
    /\ pc = "done"
    /\ float_positive(sum_values(raw_scores, DOMAIN raw_scores))
    /\ scores # raw_scores
    /\ \E lang \in DOMAIN scores : scores[lang] = Rat(1, 3)

\* C8 as stated: the matrix scores have an entry for exactly the three known
\* languages and sum to 1, for every text.
C8_MatrixScoresSumToOne ==
    pc = "done" =>
        /\ DOMAIN scores = KnownLangs
        /\ sum_values(scores, DOMAIN scores) = One

\* C8 as amended: the matrix scores have an entry for exactly the three
\* known languages; with total the sum of the three compute_score_matrix
\* totals, each score is its total divided by the sum and the scores sum to
\* 1 when the sum is greater than 0, and the totals are returned unchanged
\* when the sum is 0 or not a number.
C8_MatrixScores ==
    pc = "done" =>
        LET totals == [lang \in KnownLangs |->
                          compute_score_matrix(text,
                              load_transition_matrice(PathOf(lang)))]
            total == sum_values(totals, KnownLangs)
        IN  /\ DOMAIN scores = KnownLangs
            /\ float_positive(total) =>
                  /\ \A lang \in KnownLangs :
                        scores[lang][1] * totals[lang][2] * total[1]
                            = totals[lang][1] * scores[lang][2] * total[2]
                  /\ sum_values(scores, KnownLangs) = One
            /\ ~float_positive(total) => scores = totals

\* A text whose transitions are known to two languages with unequal weights.
C8_Witness ==
    /\ pc = "done"
    /\ \E l1, l2 \in KnownLangs :
          /\ l1 # l2
          /\ float_positive(scores[l1])
          /\ float_positive(scores[l2])
          /\ scores[l1] # scores[l2]
    /\ sum_values(scores, KnownLangs) = One

\* C9: load_words_from_file returns, in file order, the lines after the
\* first, each in lowercase and without leading or trailing whitespace.
C9_WordsLowercaseAndStripped ==
    pc = "done" =>
        LET lines == readlines(fs[loader_path])
        IN  /\ Len(words) = IF Len(lines) > 0 THEN Len(lines) - 1 ELSE 0
            /\ \A i \in 1..Len(words) : words[i] = lower(StripWs(lines[i + 1]))

\* C10: when input acquisition yields no text (the input file cannot be
\* opened, or no text and no file are supplied and the console line is
\* empty), main returns without raising and without invoking a scoring
\* operation; when the file cannot be opened the console is not prompted.
C10_NoTextReturnsEarly ==
    LET cannot_open == Truthy(input_file) /\ file_content = Unreadable
        nothing_typed == /\ ~Truthy(input_text)
                         /\ ~Truthy(input_file)
                         /\ console = <<>>
    IN  (/\ pc \notin {"parse_args", "get_text"}
         /\ cannot_open \/ nothing_typed \/ text = <<>>)
        => /\ called = {}
           /\ pc \in {"check", "returned"}
           /\ cannot_open => ~prompted

\* main has returned after a file that cannot be opened.
C10_Witness ==
    /\ pc = "returned"
    /\ Truthy(input_file)
    /\ file_content = Unreadable
    /\ ~prompted
    /\ called = {}

=============================================================================
